---- MODULE Spec2Model ----
(***************************************************************************)
(* The AnkiConnect helper scripts of anki-llm and the npm release helper.  *)
(*                                                                         *)
(* Text is a sequence of pieces.  A piece is either one character or an    *)
(* atom: a run of plain ASCII characters in which json.dumps escapes       *)
(* nothing (an action name, a dictionary key, the deck name).              *)
(***************************************************************************)
EXTENDS Integers, Sequences, FiniteSets

\* ---------------------------------------------------------------- bounds
MaxStrLen == 2
MaxNotes == 2
MaxNoteId == 2
MaxHops == 1

\* ------------------------------------------------------------- constants
ANKI_CONNECT_URL == "http://127.0.0.1:8765"
DECK_NAME == "Glossika-ENJA [2001-3000]"
OUTPUT_FILE == "glossika_deck_export.csv"
ProtocolVersion == 6
target_glossika_id == "2001"

CR == "\r"
LF == "\n"
TAB == "\t"
FF == "\f"
QUOTE == "\""
BACKSLASH == "\\"

\* Characters a TLA+ string cannot hold are pieces named by their code
\* point: NUL, backspace, DEL, e with acute, the kana KA, an emoji.
NUL == "U+0000"
BS == "U+0008"
DEL == "U+007F"
EACUTE == "U+00E9"
KANA_KA == "U+304B"
EMOJI == "U+1F600"

\* ord(c) of the characters json.dumps writes as \uXXXX.
CodePoints ==
    {<<NUL, 0>>, <<DEL, 127>>, <<EACUTE, 233>>, <<KANA_KA, 12363>>, <<EMOJI, 128512>>}

Coded == {p[1] : p \in CodePoints}

CodePoint(c) == (CHOOSE p \in CodePoints : p[1] = c)[2]

\* Characters of the value of a deck field.
FieldChars == {"r", CR}

\* Characters of a str parameter a caller may pass to anki_request.
Chars == FieldChars \cup {QUOTE, BACKSLASH, KANA_KA}

\* Further characters, tried one at a time.
OtherChars == {LF, TAB, FF, BS, NUL, DEL, EACUTE, EMOJI}

RECURSIVE StrUpTo(_, _)
StrUpTo(alphabet, n) ==
    IF n = 0 THEN {<<>>}
    ELSE LET shorter == StrUpTo(alphabet, n - 1)
         IN  shorter \cup {Append(s, c) : s \in {t \in shorter : Len(t) = n - 1},
                                          c \in alphabet}

Str == StrUpTo(Chars, MaxStrLen) \cup {<<c>> : c \in OtherChars}

FieldStr == StrUpTo(FieldChars, MaxStrLen)

NoteIds == 1..MaxNoteId

\* ------------------------------------------------------------ JSON values
\* The Python values a payload is built from: str, int, list, dict (whose
\* keys keep their insertion order).
JStr(s) == [t |-> "str", s |-> s]
JInt(n) == [t |-> "int", n |-> n]
JList(items) == [t |-> "list", items |-> items]
JObj(keys, vals) == [t |-> "obj", keys |-> keys, vals |-> vals]

Digits == <<"0", "1", "2", "3", "4", "5", "6", "7", "8", "9">>

IsDigit(c) == \E d \in 1..10 : Digits[d] = c

DigitVal(c) == (CHOOSE d \in 1..10 : Digits[d] = c) - 1

RECURSIVE DumpInt(_)
DumpInt(n) ==
    IF n < 10 THEN <<Digits[n + 1]>>
    ELSE Append(DumpInt(n \div 10), Digits[(n % 10) + 1])

HexDigits ==
    <<"0", "1", "2", "3", "4", "5", "6", "7", "8", "9", "a", "b", "c", "d", "e", "f">>

\* '\\u{0:04x}'.format(n)
Hex4(n) ==
    <<BACKSLASH, "u", HexDigits[((n \div 4096) % 16) + 1],
      HexDigits[((n \div 256) % 16) + 1], HexDigits[((n \div 16) % 16) + 1],
      HexDigits[(n % 16) + 1]>>

\* A character beyond U+FFFF is written as a surrogate pair.
EscapeCodePoint(n) ==
    IF n < 65536 THEN Hex4(n)
    ELSE LET v == n - 65536
         IN  Hex4(55296 + ((v \div 1024) % 1024)) \o Hex4(56320 + (v % 1024))

\* A variant of EscapePiece that leaves the backslash as it is.
EscapePieceNoBackslash(c) ==
    IF c = QUOTE THEN <<BACKSLASH, QUOTE>>
    ELSE IF c = LF THEN <<BACKSLASH, "n">>
    ELSE IF c = CR THEN <<BACKSLASH, "r">>
    ELSE IF c = TAB THEN <<BACKSLASH, "t">>
    ELSE IF c = FF THEN <<BACKSLASH, "f">>
    ELSE IF c = BS THEN <<BACKSLASH, "b">>
    ELSE IF c \in Coded THEN EscapeCodePoint(CodePoint(c))
    ELSE <<c>>

\* json.dumps (ensure_ascii) of one character of a str: the short escapes
\* of the encoder's table, \uXXXX for every other control character, DEL
\* and every character that is not ASCII, and the character itself for
\* printable ASCII (every other piece).
EscapePiece(c) ==
    IF c = QUOTE THEN <<BACKSLASH, QUOTE>>
    ELSE IF c = BACKSLASH THEN <<BACKSLASH, BACKSLASH>>
    ELSE IF c = LF THEN <<BACKSLASH, "n">>
    ELSE IF c = CR THEN <<BACKSLASH, "r">>
    ELSE IF c = TAB THEN <<BACKSLASH, "t">>
    ELSE IF c = FF THEN <<BACKSLASH, "f">>
    ELSE IF c = BS THEN <<BACKSLASH, "b">>
    ELSE IF c \in Coded THEN EscapeCodePoint(CodePoint(c))
    ELSE <<c>>

RECURSIVE EscapeStr(_)
EscapeStr(s) ==
    IF s = <<>> THEN <<>>
    ELSE EscapePiece(Head(s)) \o EscapeStr(Tail(s))

DumpStr(s) == <<QUOTE>> \o EscapeStr(s) \o <<QUOTE>>

RECURSIVE Dumps(_)
RECURSIVE DumpItems(_, _)
RECURSIVE DumpMembers(_, _, _)

\* json.dumps(value) with the default separators (", " and ": ").
Dumps(v) ==
    IF v.t = "str" THEN DumpStr(v.s)
    ELSE IF v.t = "int" THEN DumpInt(v.n)
    ELSE IF v.t = "list" THEN <<"[">> \o DumpItems(v.items, 1) \o <<"]">>
    ELSE <<"{">> \o DumpMembers(v.keys, v.vals, 1) \o <<"}">>

DumpItems(items, i) ==
    IF i > Len(items) THEN <<>>
    ELSE (IF i > 1 THEN <<",", " ">> ELSE <<>>)
         \o Dumps(items[i]) \o DumpItems(items, i + 1)

DumpMembers(keys, vals, i) ==
    IF i > Len(keys) THEN <<>>
    ELSE (IF i > 1 THEN <<",", " ">> ELSE <<>>)
         \o DumpStr(keys[i]) \o <<":", " ">> \o Dumps(vals[i])
         \o DumpMembers(keys, vals, i + 1)

\* ------------------------------------------------------------ JSON decoding
\* The decoder the receiving side applies to a request body.  Every parser
\* takes the text and a position and yields the value and the position
\* after it; text that is no JSON yields JError.
JError == [t |-> "error"]

Unescape(c) ==
    IF c = "r" THEN CR
    ELSE IF c = "n" THEN LF
    ELSE IF c = "t" THEN TAB
    ELSE IF c = "f" THEN FF
    ELSE IF c = "b" THEN BS
    ELSE c

IsHex(c) == \E d \in 1..16 : HexDigits[d] = c

HexVal(c) == (CHOOSE d \in 1..16 : HexDigits[d] = c) - 1

\* The four hex digits at b[i..i+3], or -1.
ParseHex4(b, i) ==
    IF i + 3 <= Len(b) /\ \A k \in 0..3 : IsHex(b[i + k])
    THEN HexVal(b[i]) * 4096 + HexVal(b[i + 1]) * 256 + HexVal(b[i + 2]) * 16 + HexVal(b[i + 3])
    ELSE -1

\* chr(n), as a piece.
CharOf(n) ==
    IF \E p \in CodePoints : p[2] = n
    THEN (CHOOSE p \in CodePoints : p[2] = n)[1]
    ELSE "U+????"

\* The \uXXXX escape whose "u" is at b[i]: the character and the position
\* after it; a high surrogate takes the low surrogate that follows it.
ParseUnicode(b, i) ==
    LET hi == ParseHex4(b, i + 1)
        lo == IF i + 6 <= Len(b) /\ b[i + 5] = BACKSLASH /\ b[i + 6] = "u"
              THEN ParseHex4(b, i + 7) ELSE -1
    IN  IF hi < 0 THEN [ok |-> FALSE, c |-> "", i |-> i + 1]
        ELSE IF 55296 <= hi /\ hi < 56320 /\ 56320 <= lo /\ lo < 57344
        THEN [ok |-> TRUE, c |-> CharOf(65536 + (hi - 55296) * 1024 + (lo - 56320)),
              i |-> i + 11]
        ELSE [ok |-> TRUE, c |-> CharOf(hi), i |-> i + 5]

SkipSpace(b, i) == IF i <= Len(b) /\ b[i] = " " THEN i + 1 ELSE i

\* A raw control character inside a string is an error (strict decoding).
IsControl(c) == c \in {CR, LF, TAB, FF, BS, NUL}

RECURSIVE ParseStrBody(_, _, _)
ParseStrBody(b, i, acc) ==
    IF i > Len(b) THEN [ok |-> FALSE, v |-> acc, i |-> i]
    ELSE IF b[i] = QUOTE THEN [ok |-> TRUE, v |-> acc, i |-> i + 1]
    ELSE IF IsControl(b[i]) THEN [ok |-> FALSE, v |-> acc, i |-> i + 1]
    ELSE IF b[i] = BACKSLASH
    THEN IF i + 1 > Len(b) THEN [ok |-> FALSE, v |-> acc, i |-> i + 1]
         ELSE IF b[i + 1] = "u"
         THEN LET u == ParseUnicode(b, i + 1)
              IN  IF u.ok THEN ParseStrBody(b, u.i, Append(acc, u.c))
                  ELSE [ok |-> FALSE, v |-> acc, i |-> u.i]
         ELSE ParseStrBody(b, i + 2, Append(acc, Unescape(b[i + 1])))
    ELSE ParseStrBody(b, i + 1, Append(acc, b[i]))

RECURSIVE ParseDigits(_, _, _)
ParseDigits(b, i, acc) ==
    IF i <= Len(b) /\ IsDigit(b[i])
    THEN ParseDigits(b, i + 1, acc * 10 + DigitVal(b[i]))
    ELSE [v |-> acc, i |-> i]

RECURSIVE ParseValue(_, _)
RECURSIVE ParseItems(_, _, _)
RECURSIVE ParseMembers(_, _, _, _)

ParseValue(b, i) ==
    IF i > Len(b) THEN [v |-> JError, i |-> i + 1]
    ELSE IF b[i] = QUOTE
    THEN LET r == ParseStrBody(b, i + 1, <<>>)
         IN  [v |-> IF r.ok THEN JStr(r.v) ELSE JError, i |-> r.i]
    ELSE IF b[i] = "[" THEN ParseItems(b, i + 1, <<>>)
    ELSE IF b[i] = "{" THEN ParseMembers(b, i + 1, <<>>, <<>>)
    ELSE IF IsDigit(b[i])
    THEN LET r == ParseDigits(b, i, 0) IN [v |-> JInt(r.v), i |-> r.i]
    ELSE [v |-> JError, i |-> i + 1]

ParseItems(b, i, acc) ==
    IF i > Len(b) THEN [v |-> JError, i |-> i]
    ELSE IF b[i] = "]" THEN [v |-> JList(acc), i |-> i + 1]
    ELSE IF b[i] = "," THEN ParseItems(b, SkipSpace(b, i + 1), acc)
    ELSE LET r == ParseValue(b, i)
         IN  IF r.v = JError THEN [v |-> JError, i |-> r.i]
             ELSE ParseItems(b, r.i, Append(acc, r.v))

ParseMembers(b, i, keys, vals) ==
    IF i > Len(b) THEN [v |-> JError, i |-> i]
    ELSE IF b[i] = "}" THEN [v |-> JObj(keys, vals), i |-> i + 1]
    ELSE IF b[i] = "," THEN ParseMembers(b, SkipSpace(b, i + 1), keys, vals)
    ELSE IF b[i] # QUOTE THEN [v |-> JError, i |-> i + 1]
    ELSE LET k == ParseStrBody(b, i + 1, <<>>)
             r == ParseValue(b, SkipSpace(b, k.i + 1))
         IN  IF ~k.ok \/ k.i > Len(b) \/ b[k.i] # ":" \/ r.v = JError
             THEN [v |-> JError, i |-> r.i]
             ELSE ParseMembers(b, r.i, Append(keys, k.v), Append(vals, r.v))

\* json.loads(body): text left over after the value is an error too.
Loads(b) ==
    LET r == ParseValue(b, 1)
    IN  IF r.i = Len(b) + 1 THEN r.v ELSE JError

HasMember(obj, key) == obj.t = "obj" /\ \E i \in 1..Len(obj.keys) : obj.keys[i] = key

\* The member of a decoded object, by key.
Member(obj, key) ==
    IF HasMember(obj, key)
    THEN obj.vals[CHOOSE i \in 1..Len(obj.keys) : obj.keys[i] = key]
    ELSE JError

\* ------------------------------------------------- requests and responses
\* payload = {"action": action, "params": params, "version": 6}
Payload(action, params) ==
    JObj(<<<<"action">>, <<"params">>, <<"version">>>>,
         <<JStr(<<action>>), params, JInt(ProtocolVersion)>>)

\* anki_request(action, **params): the request as the caller gave it and
\* the body json.dumps makes of it.
Request(action, params) ==
    [action |-> action, params |-> params, body |-> Dumps(Payload(action, params))]

NoRequest == [action |-> "", params |-> JObj(<<>>, <<>>), body |-> <<>>]

\* One HTTP request that requests.post sends for the call numbered `call`:
\* the POST of the body, or what requests sends when it follows a
\* redirection (a GET carries no body).
Http(call, method, r) ==
    [call |-> call, method |-> method, action |-> r.action, params |-> r.params,
     body |-> IF method = "POST" THEN r.body ELSE <<>>]

NoParams == JObj(<<>>, <<>>)

QueryParams(q) == JObj(<<<<"query">>>>, <<JStr(q)>>)

RECURSIVE IntItems(_)
IntItems(ids) ==
    IF ids = <<>> THEN <<>> ELSE <<JInt(Head(ids))>> \o IntItems(Tail(ids))

NotesParams(ids) == JObj(<<<<"notes">>>>, <<JList(IntItems(ids))>>)

\* update_payload of update_note.main
UpdatePayload(id, english) ==
    JObj(<<<<"note">>>>,
         <<JObj(<<<<"id">>, <<"fields">>>>,
                <<JInt(id), JObj(<<<<"English">>>>, <<JStr(english)>>)>>)>>)

\* The fields of a Glossika note; "ka" stands for the kana-named field.
AllFields == {"Id", "English", "Japanese", "ka", "ROM", "Explanation"}

NoFields == [f \in {} |-> <<>>]

\* A note as notesInfo returns it.  An id the collection does not hold comes
\* back as the empty object, which has no "fields" key.
KnownNote(S, v) == [known |-> TRUE, fields |-> [f \in S |-> v]]

UnknownNote == [known |-> FALSE, fields |-> NoFields]

NotePool ==
    {KnownNote(AllFields, v) : v \in FieldStr}
        \cup {KnownNote({"Id"}, <<CR, "r">>), UnknownNote}

RECURSIVE SeqsUpTo(_, _)
SeqsUpTo(S, n) ==
    IF n = 0 THEN {<<>>}
    ELSE LET shorter == SeqsUpTo(S, n - 1)
         IN  shorter \cup {Append(q, e) : q \in {t \in shorter : Len(t) = n - 1}, e \in S}

Injective(q) == \A i, j \in 1..Len(q) : q[i] = q[j] => i = j

\* The "result" member of a response envelope, and the Python value made
\* of it (ResNull is None).
ResAbsent == [t |-> "absent", ids |-> <<>>, notes |-> <<>>, decks |-> <<>>]
ResNull == [t |-> "null", ids |-> <<>>, notes |-> <<>>, decks |-> <<>>]
ResIds(l) == [t |-> "ids", ids |-> l, notes |-> <<>>, decks |-> <<>>]
ResNotes(l) == [t |-> "notes", ids |-> <<>>, notes |-> l, decks |-> <<>>]
ResDecks(l) == [t |-> "decks", ids |-> <<>>, notes |-> <<>>, decks |-> l]

\* The "error" member of a response envelope.
ErrAbsent == [t |-> "absent", s |-> ""]
ErrNull == [t |-> "null", s |-> ""]
ErrStr(m) == [t |-> "str", s |-> m]

ErrorMessages == {"", "deck was not found"}

Errors == {ErrAbsent, ErrNull} \cup {ErrStr(m) : m \in ErrorMessages}

IdLists == {q \in SeqsUpTo(NoteIds, MaxNotes) : Injective(q)}

DeckLists == {<<>>, <<"Default">>, <<DECK_NAME>>, <<"Default", DECK_NAME>>}

\* How many notes a notesInfo request asks for.
Requested(req) ==
    IF req.action = "notesInfo" THEN Len(Member(req.params, <<"notes">>).items) ELSE 0

\* The results the application may give to a request.
Results(req) ==
    {ResAbsent, ResNull} \cup
    (IF req.action = "deckNames" THEN {ResDecks(l) : l \in DeckLists}
     ELSE IF req.action = "findNotes" THEN {ResIds(l) : l \in IdLists}
     ELSE IF req.action = "notesInfo"
     THEN {ResNotes(l) : l \in SeqsUpTo(NotePool, Requested(req))}
     ELSE {})

\* The results tried beside an error or a bad status.
FewResults(req) ==
    {ResAbsent, ResNull} \cup
    (IF req.action = "deckNames" THEN {ResDecks(<<DECK_NAME>>)}
     ELSE IF req.action = "findNotes" THEN {ResIds(<<1>>)}
     ELSE IF req.action = "notesInfo" THEN {ResNotes(<<KnownNote(AllFields, <<"r">>)>>)}
     ELSE {})

NetFailures == {"refused", "timeout", "dns"}

\* The statuses of the responses requests.post ends with (one of
\* REDIRECT_STATI here comes without a Location header or with an empty one).
Statuses == {101, 200, 201, 204, 300, 302, 304, 307, 404, 500}

\* requests.models.REDIRECT_STATI: a response with one of these statuses and
\* a Location header that names a URL is followed by requests.post
\* (allow_redirects is not switched off).
REDIRECT_STATI == {301, 302, 303, 307, 308}

\* Session.max_redirects, requests' DEFAULT_REDIRECT_LIMIT.
max_redirects == 30

\* SessionRedirectMixin.rebuild_method: 307 and 308 keep the method (and the
\* body); 303, 302 and a POST answered 301 go on as a GET.
RebuildMethod(method, status) == IF status \in {307, 308} THEN method ELSE "GET"

\* What requests.post meets: a failure of the network, or a response with a
\* status and a body that is no JSON ("text"), JSON that is no object
\* ("array") or a JSON object.
Response(net, status, form, error, result) ==
    [net |-> net, status |-> status, form |-> form, error |-> error, result |-> result,
     location |-> "absent"]

\* A response with a Location header that names a URL.
Redirection(status) ==
    [Response("ok", status, "text", ErrAbsent, ResAbsent) EXCEPT !.location = "url"]

\* A response with a Location header whose value is empty.
EmptyLocation(resp) == [resp EXCEPT !.location = "empty"]

\* Response.is_redirect: a Location header and a status of REDIRECT_STATI.
IsRedirect(resp) ==
    resp.net = "ok" /\ resp.location # "absent" /\ resp.status \in REDIRECT_STATI

\* get_redirect_target gives a URL: requests follows the response. With an
\* empty Location there is none, and requests.post returns the response.
Follows(resp) == IsRedirect(resp) /\ resp.location = "url"

NoResponse == Response("none", 0, "none", ErrAbsent, ResAbsent)

FewBodies(req) ==
    {<<"text", ErrAbsent, ResAbsent>>, <<"array", ErrAbsent, ResAbsent>>}
        \cup {<<"object", e, r>> : e \in Errors, r \in FewResults(req)}

Bodies(req) == FewBodies(req) \cup {<<"object", ErrNull, r>> : r \in Results(req)}

\* The bodies tried beside a status that is not 200.
StatusBodies(req) ==
    {<<"text", ErrAbsent, ResAbsent>>, <<"array", ErrAbsent, ResAbsent>>,
     <<"object", ErrStr("deck was not found"), ResNull>>}
        \cup {<<"object", ErrNull, r>> : r \in FewResults(req)}

Responses(req) ==
    {Response(k, 0, "none", ErrAbsent, ResAbsent) : k \in NetFailures}
        \cup {Response("ok", 200, b[1], b[2], b[3]) : b \in Bodies(req)}
        \cup {Response("ok", st, b[1], b[2], b[3]) :
                 st \in Statuses \ {200}, b \in StatusBodies(req)}
        \cup {EmptyLocation(Response("ok", st, b[1], b[2], b[3])) :
                 st \in Statuses \cap REDIRECT_STATI, b \in StatusBodies(req)}

\* The responses tried at the end of a chain of redirections, and in the
\* calls of the run after it.
RedirectedResponses(req) ==
    {Response("refused", 0, "none", ErrAbsent, ResAbsent),
     Response("ok", 404, "text", ErrAbsent, ResAbsent)}
        \cup {Response("ok", 200, "text", ErrAbsent, ResAbsent),
              Response("ok", 200, "object", ErrStr("deck was not found"), ResNull)}
        \cup {Response("ok", 200, "object", ErrNull, r) : r \in FewResults(req)}

\* The redirections the endpoint may answer to a request of the call
\* numbered `call` after `hops` of them: any for the first MaxHops; an
\* endpoint that redirects a POST more often than that does so for ever,
\* from the first call of the run on, with a status that keeps the method.
Redirections(hops, method, call) ==
    IF hops < MaxHops THEN REDIRECT_STATI
    ELSE IF method = "POST" /\ call = 1 THEN {307, 308}
    ELSE {}

\* What requests.post may end with after following `hops` redirections
\* (`fresh`: no redirection was followed in the run so far). Once
\* max_redirects of them were followed, one more response that redirects
\* ends it.
FinalResponses(req, hops, fresh) ==
    IF fresh THEN Responses(req)
    ELSE IF hops <= MaxHops THEN RedirectedResponses(req)
    ELSE IF hops = max_redirects THEN {Redirection(st) : st \in {307, 308}}
    ELSE {}

\* ------------------------------------------------------------ anki_request
\* How a call of anki_request ends: it returns a value or raises.
Outcome(kind, value, msg) == [kind |-> kind, value |-> value, msg |-> msg]

NoOutcome == Outcome("none", ResNull, <<>>)

Return(value) == Outcome("return", value, <<>>)

RemoteError(m) == Outcome("RemoteError", ResNull, <<"AnkiConnect API error: ", m>>)

TransportError(cause) ==
    Outcome("TransportError", ResNull,
            <<"Could not connect to AnkiConnect. Is Anki running? Error: ", cause>>)

\* .get on a list: not a RequestException, so it leaves anki_request as it is.
AttributeError == Outcome("AttributeError", ResNull, <<"object has no attribute 'get'">>)

\* response.raise_for_status(): HTTPError for a 4xx or 5xx status.
RaisesForStatus(status) == 400 <= status /\ status < 600

\* http.client reads no body for a 101-199, 204 or 304 response, whatever
\* the server sent after the headers. A 100 is never the status of a
\* response: http.client skips it and reads on for the final one.
BodyDropped(status) == (101 <= status /\ status < 200) \/ status \in {204, 304}

\* The body response.json() gets to parse: an empty body is no JSON.
ReceivedForm(resp) == IF BodyDropped(resp.status) THEN "text" ELSE resp.form

\* bool(response_json.get("error")): None and "" are false.
Truthy(error) == error.t = "str" /\ error.s # ""

\* A variant of GetResult that turns every empty result into None, as
\* `response_json.get("result") or None` would.
GetResultOrNone(result) ==
    IF result.t = "absent" \/ (result.ids = <<>> /\ result.notes = <<>> /\ result.decks = <<>>)
    THEN ResNull
    ELSE result

\* response_json.get("result"): None when the key is absent.
GetResult(result) == IF result.t = "absent" THEN ResNull ELSE result

\* A variant of AnkiResponse that looks at "result" before "error".
AnkiResponseResultFirst(resp) ==
    IF resp.net # "ok" THEN TransportError(resp.net)
    ELSE IF Follows(resp) THEN TransportError("TooManyRedirects")
    ELSE IF RaisesForStatus(resp.status) THEN TransportError("HTTPError")
    ELSE IF ReceivedForm(resp) = "text" THEN TransportError("JSONDecodeError")
    ELSE IF ReceivedForm(resp) = "array" THEN AttributeError
    ELSE IF resp.result.t \notin {"absent", "null"} THEN Return(resp.result)
    ELSE IF Truthy(resp.error) THEN RemoteError(resp.error.s)
    ELSE Return(GetResult(resp.result))

\* The try block of anki_request from the response requests.post ends with,
\* and its except clause. requests.post ends with a response that it follows
\* only by raising TooManyRedirects, a RequestException. response.json() raises requests.exceptions.JSONDecodeError, which is a
\* RequestException (requests 2.27 and later).
AnkiResponse(resp) ==
    IF resp.net # "ok" THEN TransportError(resp.net)
    ELSE IF Follows(resp) THEN TransportError("TooManyRedirects")
    ELSE IF RaisesForStatus(resp.status) THEN TransportError("HTTPError")
    ELSE IF ReceivedForm(resp) = "text" THEN TransportError("JSONDecodeError")
    ELSE IF ReceivedForm(resp) = "array" THEN AttributeError
    ELSE IF Truthy(resp.error) THEN RemoteError(resp.error.s)
    ELSE Return(GetResult(resp.result))

Failed(o) == o.kind \notin {"none", "return"}

\* ------------------------------------------------------------------ state
Header == <<"id", "english", "japanese", "ka", "ROM", "explanation">>

NoFile == [state |-> "absent", header |-> <<>>, rows |-> <<>>]

VARIABLES
    script,          \* the script that runs
    pc,              \* where the script is
    phase,           \* "caller", or inside anki_request: "post", "wait"
    req,             \* the request of the running anki_request call
    calls,           \* calls of anki_request so far
    sent,            \* the HTTP requests sent so far, with the caller's values
    hops,            \* redirections followed by the running requests.post
    inflight,        \* requests sent and not yet answered
    lastResp,        \* what the last POST met
    outcome,         \* how the last anki_request call ended
    ended,           \* how each call so far ended: "return" or the error
    note_ids, note_id, current_english, notes_info,
    row_i,           \* export: the notes of notes_info gone through
    csvfile,         \* OUTPUT_FILE
    out,             \* what the script printed
    args,            \* release.py: the parsed command line
    cmds, results    \* release.py: the steps run so far and how each ended

vars == <<script, pc, phase, req, calls, sent, hops, inflight, lastResp, outcome, ended,
          note_ids, note_id, current_english, notes_info, row_i, csvfile, out,
          args, cmds, results>>

net == <<phase, req, calls, sent, hops, inflight, lastResp, outcome, ended>>
locals == <<note_ids, note_id, current_english, notes_info, row_i>>
release == <<args, cmds, results>>

Scripts == {"demo", "inspect", "export", "update", "client", "release"}

NoArgs == [bump |-> "", otp |-> ""]

Init ==
    /\ script \in Scripts
    /\ pc = "start"
    /\ phase = "caller"
    /\ req = NoRequest
    /\ calls = 0
    /\ sent = <<>>
    /\ hops = 0
    /\ inflight = 0
    /\ lastResp = NoResponse
    /\ outcome = NoOutcome
    /\ ended = <<>>
    /\ note_ids = <<>>
    /\ note_id = 0
    /\ current_english = <<>>
    /\ notes_info = <<>>
    /\ row_i = 0
    /\ csvfile = NoFile
    /\ out = <<>>
    /\ args = NoArgs
    /\ cmds = <<>>
    /\ results = <<>>

\* The caller calls anki_request(action, **params) at the place `at`.
Call(at, action, params) ==
    /\ pc' = at
    /\ phase' = "post"
    /\ req' = Request(action, params)
    /\ calls' = calls + 1
    /\ lastResp' = NoResponse
    /\ outcome' = NoOutcome
    /\ UNCHANGED <<sent, hops, inflight, ended>>

\* The caller goes on without a call; the value it was handed is used up.
Goto(at) ==
    /\ pc' = at
    /\ lastResp' = NoResponse
    /\ outcome' = NoOutcome
    /\ UNCHANGED <<phase, req, calls, sent, hops, inflight, ended>>

Emit(m) == out' = Append(out, m)

\* except Exception as e: print the error; the script ends.
Except == Goto("done") /\ Emit("error")

\* requests.post(ANKI_CONNECT_URL, data=json.dumps(payload)) sends the POST.
Post ==
    /\ phase = "post"
    /\ sent' = Append(sent, Http(calls, "POST", req))
    /\ hops' = 0
    /\ inflight' = inflight + 1
    /\ phase' = "wait"
    /\ UNCHANGED <<script, pc, req, calls, lastResp, outcome, ended, locals, csvfile, out, release>>

\* Inside requests.post: the request is answered with a redirection, and
\* requests sends the next request to the Location it names. The endpoint
\* redirects within one call of a run at most.
Redirect ==
    /\ phase = "wait"
    /\ hops < max_redirects
    /\ hops > 0 \/ Len(sent) = calls
    /\ \E st \in Redirections(hops, sent[Len(sent)].method, calls) :
        /\ Follows(Redirection(st))
        /\ sent' = Append(sent, Http(calls, RebuildMethod(sent[Len(sent)].method, st), req))
    /\ hops' = hops + 1
    /\ UNCHANGED <<script, pc, phase, req, calls, inflight, lastResp, outcome, ended,
                   locals, csvfile, out, release>>

\* requests.post ends: anki_request returns or raises.
Respond ==
    /\ phase = "wait"
    /\ \E resp \in FinalResponses(req, hops, Len(sent) = calls) :
        /\ lastResp' = resp
        /\ outcome' = AnkiResponse(resp)
        /\ ended' = Append(ended, AnkiResponse(resp).kind)
    /\ phase' = "caller"
    /\ hops' = 0
    /\ inflight' = inflight - 1
    /\ UNCHANGED <<script, pc, req, calls, sent, locals, csvfile, out, release>>

Returned(at) == pc = at /\ phase = "caller"

\* len(value) and value[0] raise TypeError on None.
IsNone(value) == value.t = "null"

\* ------------------------------------------------- export_glossika_deck.py
DeckQuery == <<"deck:", QUOTE, DECK_NAME, QUOTE>>

\* A variant of StripCR that removes a leading carriage return only.
StripLeadingCR(s) == IF s # <<>> /\ Head(s) = CR THEN Tail(s) ELSE s

\* value.replace('\r', '')
StripCR(s) == SelectSeq(s, LAMBDA c : c # CR)

\* fields.get(name, {}).get('value', '')
FieldValue(fields, name) == IF name \in DOMAIN fields THEN fields[name] ELSE <<>>

\* The row written for a note, in the order of fieldnames.
ExportRow(note) ==
    <<StripCR(FieldValue(note.fields, "Id")),
      StripCR(FieldValue(note.fields, "English")),
      StripCR(FieldValue(note.fields, "Japanese")),
      StripCR(FieldValue(note.fields, "ka")),
      StripCR(FieldValue(note.fields, "ROM")),
      StripCR(FieldValue(note.fields, "Explanation"))>>

ExportStart ==
    /\ script = "export" /\ Returned("start")
    /\ Call("findNotes", "findNotes", QueryParams(DeckQuery))
    /\ Emit("exporting")
    /\ UNCHANGED <<script, locals, csvfile, release>>

\* A variant of ExportAfterFind that opens the file before fetching the notes.
ExportAfterFindOpening ==
    /\ script = "export" /\ Returned("findNotes")
    /\ IF Failed(outcome) \/ IsNone(outcome.value)
       THEN Except /\ UNCHANGED <<note_ids, csvfile>>
       ELSE /\ csvfile' = [state |-> "open", header |-> Header, rows |-> <<>>]
            /\ IF outcome.value.ids = <<>>
               THEN Goto("done") /\ out' = out \o <<"found", "no notes">>
                    /\ UNCHANGED note_ids
               ELSE /\ Call("notesInfo", "notesInfo", NotesParams(outcome.value.ids))
                    /\ note_ids' = outcome.value.ids
                    /\ out' = out \o <<"found", "fetching">>
    /\ UNCHANGED <<script, note_id, current_english, notes_info, row_i, release>>

ExportAfterFind ==
    /\ script = "export" /\ Returned("findNotes")
    /\ IF Failed(outcome) \/ IsNone(outcome.value)
       THEN Except /\ UNCHANGED note_ids
       ELSE IF outcome.value.ids = <<>>
       THEN Goto("done") /\ out' = out \o <<"found", "no notes">> /\ UNCHANGED note_ids
       ELSE /\ Call("notesInfo", "notesInfo", NotesParams(outcome.value.ids))
            /\ note_ids' = outcome.value.ids
            /\ out' = out \o <<"found", "fetching">>
    /\ UNCHANGED <<script, note_id, current_english, notes_info, row_i, csvfile, release>>

\* open(OUTPUT_FILE, 'w') and writer.writeheader()
ExportAfterInfo ==
    /\ script = "export" /\ Returned("notesInfo")
    /\ IF Failed(outcome) \/ IsNone(outcome.value)
       THEN Except /\ UNCHANGED <<notes_info, row_i, csvfile>>
       ELSE /\ Goto("rows")
            /\ notes_info' = outcome.value.notes
            /\ row_i' = 0
            /\ csvfile' = [state |-> "open", header |-> Header, rows |-> <<>>]
            /\ out' = out \o <<"retrieved", "writing">>
    /\ UNCHANGED <<script, note_ids, note_id, current_english, release>>

\* One turn of `for note in notes_info`; note['fields'] raises KeyError on
\* a note without fields, and the with statement closes the file.
ExportWriteRow ==
    /\ script = "export" /\ Returned("rows")
    /\ row_i < Len(notes_info)
    /\ IF ~notes_info[row_i + 1].known
       THEN /\ Except
            /\ csvfile' = [csvfile EXCEPT !.state = "closed"]
            /\ UNCHANGED row_i
       ELSE /\ csvfile' = [csvfile EXCEPT !.rows = Append(@, ExportRow(notes_info[row_i + 1]))]
            /\ row_i' = row_i + 1
            /\ UNCHANGED <<pc, net, out>>
    /\ UNCHANGED <<script, note_ids, note_id, current_english, notes_info, release>>

ExportFinish ==
    /\ script = "export" /\ Returned("rows")
    /\ row_i = Len(notes_info)
    /\ csvfile' = [csvfile EXCEPT !.state = "closed"]
    /\ Goto("done") /\ Emit("exported")
    /\ UNCHANGED <<script, locals, release>>

\* ------------------------------------------------------- inspect_fields.py
\* note_ids[:n]
Take(q, n) == SubSeq(q, 1, IF Len(q) < n THEN Len(q) ELSE n)

InspectStart ==
    /\ script = "inspect" /\ Returned("start")
    /\ Call("findNotes", "findNotes", QueryParams(DeckQuery))
    /\ Emit("inspecting")
    /\ UNCHANGED <<script, locals, csvfile, release>>

InspectAfterFind ==
    /\ script = "inspect" /\ Returned("findNotes")
    /\ IF Failed(outcome) \/ IsNone(outcome.value)
       THEN Except /\ UNCHANGED note_ids
       ELSE IF outcome.value.ids = <<>>
       THEN Goto("done") /\ out' = out \o <<"found", "no notes">> /\ UNCHANGED note_ids
       ELSE /\ Call("notesInfo", "notesInfo", NotesParams(Take(outcome.value.ids, 1)))
            /\ note_ids' = outcome.value.ids
            /\ Emit("found")
    /\ UNCHANGED <<script, note_id, current_english, notes_info, row_i, csvfile, release>>

\* `if notes_info:` skips None and []; note['noteId'] raises KeyError on a
\* note that is the empty object.
InspectAfterInfo ==
    /\ script = "inspect" /\ Returned("notesInfo")
    /\ IF Failed(outcome)
       THEN Except
       ELSE IF IsNone(outcome.value) \/ outcome.value.notes = <<>>
       THEN Goto("done") /\ UNCHANGED out
       ELSE IF ~outcome.value.notes[1].known
       THEN Except
       ELSE Goto("done") /\ Emit("fields")
    /\ UNCHANGED <<script, locals, csvfile, release>>

\* ---------------------------------------------------- anki_connect_demo.py
DisplayCount == 3

DemoStart ==
    /\ script = "demo" /\ Returned("start")
    /\ Call("deckNames", "deckNames", NoParams)
    /\ Emit("testing")
    /\ UNCHANGED <<script, locals, csvfile, release>>

DemoAfterDecks ==
    /\ script = "demo" /\ Returned("deckNames")
    /\ IF Failed(outcome) \/ IsNone(outcome.value)
       THEN Except
       ELSE IF \A i \in 1..Len(outcome.value.decks) : outcome.value.decks[i] # DECK_NAME
       THEN Goto("done") /\ out' = out \o <<"decks", "deck not found">>
       ELSE /\ Call("findNotes", "findNotes", QueryParams(DeckQuery))
            /\ out' = out \o <<"decks", "reading">>
    /\ UNCHANGED <<script, locals, csvfile, release>>

DemoAfterFind ==
    /\ script = "demo" /\ Returned("findNotes")
    /\ IF Failed(outcome) \/ IsNone(outcome.value)
       THEN Except /\ UNCHANGED note_ids
       ELSE IF outcome.value.ids = <<>>
       THEN Goto("done") /\ Emit("found") /\ UNCHANGED note_ids
       ELSE /\ Call("notesInfo", "notesInfo",
                    NotesParams(Take(outcome.value.ids, DisplayCount)))
            /\ note_ids' = outcome.value.ids
            /\ Emit("found")
    /\ UNCHANGED <<script, note_id, current_english, notes_info, row_i, csvfile, release>>

\* "Showing first N notes" is printed from num_to_display, before
\* enumerate(None) raises TypeError or note['noteId'] KeyError.
DemoAfterInfo ==
    /\ script = "demo" /\ Returned("notesInfo")
    /\ IF Failed(outcome)
       THEN Except
       ELSE IF IsNone(outcome.value)
       THEN Goto("done") /\ out' = out \o <<"showing", "error">>
       ELSE IF \E i \in 1..Len(outcome.value.notes) : ~outcome.value.notes[i].known
       THEN Goto("done") /\ out' = out \o <<"showing", "error">>
       ELSE Goto("done") /\ Emit("showing")
    /\ UNCHANGED <<script, locals, csvfile, release>>

\* ----------------------------------------------------------- update_note.py
UpdateQuery == <<"deck:", QUOTE, DECK_NAME, QUOTE, " Id:", target_glossika_id>>

\* current_english + " foo"
NewEnglish(english) == english \o <<" foo">>

\* note_ids[0]
FirstId(ids) == ids[1]

\* notes_info[0]['fields']['English']['value'] raises TypeError on None,
\* IndexError on [], KeyError on a note without the key.
HasEnglish(value) ==
    /\ ~IsNone(value)
    /\ value.notes # <<>>
    /\ value.notes[1].known
    /\ "English" \in DOMAIN value.notes[1].fields

UpdateStart ==
    /\ script = "update" /\ Returned("start")
    /\ Call("findNotes", "findNotes", QueryParams(UpdateQuery))
    /\ Emit("finding")
    /\ UNCHANGED <<script, locals, csvfile, release>>

UpdateAfterFind ==
    /\ script = "update" /\ Returned("findNotes")
    /\ IF Failed(outcome)
       THEN Except /\ UNCHANGED <<note_ids, note_id>>
       ELSE IF IsNone(outcome.value) \/ outcome.value.ids = <<>>
       THEN Goto("done") /\ Emit("no note found") /\ UNCHANGED <<note_ids, note_id>>
       ELSE /\ Call("notesInfo", "notesInfo", NotesParams(<<FirstId(outcome.value.ids)>>))
            /\ note_ids' = outcome.value.ids
            /\ note_id' = FirstId(outcome.value.ids)
            /\ Emit("found")
    /\ UNCHANGED <<script, current_english, notes_info, row_i, csvfile, release>>

UpdateAfterInfo ==
    /\ script = "update" /\ Returned("notesInfo")
    /\ IF Failed(outcome) \/ ~HasEnglish(outcome.value)
       THEN Except /\ UNCHANGED current_english
       ELSE LET english == outcome.value.notes[1].fields["English"]
            IN  /\ Call("updateNote", "updateNote",
                        UpdatePayload(note_id, NewEnglish(english)))
                /\ current_english' = english
                /\ out' = out \o <<"current", "new", "updating">>
    /\ UNCHANGED <<script, note_ids, note_id, notes_info, row_i, csvfile, release>>

UpdateAfterUpdate ==
    /\ script = "update" /\ Returned("updateNote")
    /\ IF Failed(outcome)
       THEN Except
       ELSE /\ Call("verify", "notesInfo", NotesParams(<<note_id>>))
            /\ out' = out \o <<"updated", "verifying">>
    /\ UNCHANGED <<script, locals, csvfile, release>>

UpdateAfterVerify ==
    /\ script = "update" /\ Returned("verify")
    /\ IF Failed(outcome) \/ ~HasEnglish(outcome.value)
       THEN Except
       ELSE Goto("done") /\ Emit("verified")
    /\ UNCHANGED <<script, locals, csvfile, release>>

\* ------------------------------------------- anki_request with any caller
ClientActions == {"findNotes", "sync"}

ClientCall ==
    /\ script = "client" /\ Returned("start")
    /\ \E a \in ClientActions, q \in Str : Call("invoke", a, QueryParams(q))
    /\ UNCHANGED <<script, locals, csvfile, out, release>>

\* --------------------------------------------------------------- release.py
Bumps == {"patch", "minor", "major"}

Otps == {"123456"}

GitStatus == <<"git", "status", "--porcelain", "--ignore-submodules">>
ReadPackage == <<"read", "package.json">>
NpmVersion(b) == <<"npm", "version", b>>
NpmPublish(otp) == <<"npm", "publish", "--otp", otp>>
GitPush == <<"git", "push">>
GitPushTags == <<"git", "push", "--tags">>

Step(cmd, result) ==
    /\ cmds' = Append(cmds, cmd)
    /\ results' = Append(results, result)

\* A variant of AfterStatus that goes on with a dirty working tree.
AfterStatusIgnoringDirty(result) ==
    IF result = "fail" THEN "crash" ELSE "read_package_info"

\* ensure_clean_worktree: run_capture raises on a failed git; a status that
\* is not empty ends the run with sys.exit(1).
AfterStatus(result) ==
    IF result = "fail" THEN "crash"
    ELSE IF result = "dirty" THEN "exit1"
    ELSE "read_package_info"

\* read_package_info: a missing name or version ends the run.
AfterRead(result) ==
    IF result = "fail" THEN "crash"
    ELSE IF result = "missing" THEN "exit1"
    ELSE "version_and_tag"

\* subprocess.run(cmd, check=True): CalledProcessError on a failed command.
AfterRun(result, next) == IF result = "ok" THEN next ELSE "crash"

ReleaseStart ==
    /\ script = "release" /\ pc = "start"
    /\ \E b \in Bumps, o \in Otps : args' = [bump |-> b, otp |-> o]
    /\ pc' = "ensure_clean_worktree"
    /\ UNCHANGED <<script, net, locals, csvfile, out, cmds, results>>

ReleaseEnsureClean ==
    /\ script = "release" /\ pc = "ensure_clean_worktree"
    /\ \E r \in {"ok", "dirty", "fail"} :
        /\ Step(GitStatus, r)
        /\ pc' = AfterStatus(r)
    /\ UNCHANGED <<script, net, locals, csvfile, out, args>>

ReleaseReadInfo ==
    /\ script = "release" /\ pc = "read_package_info"
    /\ \E r \in {"ok", "missing", "fail"} :
        /\ Step(ReadPackage, r)
        /\ pc' = AfterRead(r)
        /\ out' = IF r = "ok" THEN Append(out, "current version") ELSE out
    /\ UNCHANGED <<script, net, locals, csvfile, args>>

ReleaseVersion ==
    /\ script = "release" /\ pc = "version_and_tag"
    /\ \E r \in {"ok", "fail"} :
        /\ Step(NpmVersion(args.bump), r)
        /\ pc' = AfterRun(r, "publish_package")
        /\ out' = IF r = "ok" THEN Append(out, "bumped") ELSE out
    /\ UNCHANGED <<script, net, locals, csvfile, args>>

ReleasePublish ==
    /\ script = "release" /\ pc = "publish_package"
    /\ \E r \in {"ok", "fail"} :
        /\ Step(NpmPublish(args.otp), r)
        /\ pc' = AfterRun(r, "push")
    /\ UNCHANGED <<script, net, locals, csvfile, out, args>>

ReleasePush ==
    /\ script = "release" /\ pc = "push"
    /\ \E r \in {"ok", "fail"} :
        /\ Step(GitPush, r)
        /\ pc' = AfterRun(r, "push_tags")
    /\ UNCHANGED <<script, net, locals, csvfile, out, args>>

ReleasePushTags ==
    /\ script = "release" /\ pc = "push_tags"
    /\ \E r \in {"ok", "fail"} :
        /\ Step(GitPushTags, r)
        /\ pc' = AfterRun(r, "done")
        /\ out' = IF r = "ok" THEN Append(out, "released") ELSE out
    /\ UNCHANGED <<script, net, locals, csvfile, args>>

Next ==
    \/ Post
    \/ Redirect
    \/ Respond
    \/ DemoStart
    \/ DemoAfterDecks
    \/ DemoAfterFind
    \/ DemoAfterInfo
    \/ InspectStart
    \/ InspectAfterFind
    \/ InspectAfterInfo
    \/ ExportStart
    \/ ExportAfterFind
    \/ ExportAfterInfo
    \/ ExportWriteRow
    \/ ExportFinish
    \/ UpdateStart
    \/ UpdateAfterFind
    \/ UpdateAfterInfo
    \/ UpdateAfterUpdate
    \/ UpdateAfterVerify
    \/ ClientCall
    \/ ReleaseStart
    \/ ReleaseEnsureClean
    \/ ReleaseReadInfo
    \/ ReleaseVersion
    \/ ReleasePublish
    \/ ReleasePush
    \/ ReleasePushTags

Spec == Init /\ [][Next]_vars

\* ------------------------------------------------------------------ claims
\* anki_request has just ended and the caller has not yet gone on.
Answered == phase = "caller" /\ lastResp.net # "none"

Is2xx(status) == 200 <= status /\ status < 300

\* The POST was answered 2xx with a JSON object (a 204 carries no body).
AnsweredEnvelope ==
    /\ Answered /\ lastResp.net = "ok" /\ Is2xx(lastResp.status)
    /\ ReceivedForm(lastResp) = "object"

FailedWith(kind, detail) == outcome.kind = kind /\ outcome.msg[2] = detail

\* C1 as stated: every envelope whose "error" is a string, the empty string
\* too, makes anki_request fail with a RemoteError carrying that string.
C1_AnyStringError ==
    (AnsweredEnvelope /\ lastResp.error.t = "str")
        => FailedWith("RemoteError", lastResp.error.s)

\* C1 amended: every envelope whose "error" is a string that is not empty
\* makes anki_request fail with a RemoteError carrying exactly that string,
\* whatever "result" holds; the result is never returned.
C1_NonEmptyError ==
    (AnsweredEnvelope /\ lastResp.error.t = "str" /\ lastResp.error.s # "")
        => FailedWith("RemoteError", lastResp.error.s)

C1_Witness ==
    /\ AnsweredEnvelope
    /\ lastResp.error = ErrStr("deck was not found")
    /\ lastResp.result = ResIds(<<1>>)
    /\ outcome.kind = "RemoteError"

\* C2: a 2xx envelope whose "error" is null makes anki_request return, and
\* the value returned is the envelope's "result", be it null or empty.
C2_ReturnsResult ==
    (AnsweredEnvelope /\ lastResp.error.t = "null")
        => /\ outcome.kind = "return"
           /\ lastResp.result.t # "absent" => outcome.value = lastResp.result

C2_Witness ==
    /\ AnsweredEnvelope
    /\ lastResp.error.t = "null"
    /\ lastResp.result = ResIds(<<>>)
    /\ outcome = Return(ResIds(<<>>))

\* C3 as stated: a failure of the network and every status outside 2xx make
\* anki_request fail with the TransportError.
C3_EveryTransportFailure ==
    (Answered /\ (lastResp.net \in NetFailures
                    \/ (lastResp.net = "ok" /\ ~Is2xx(lastResp.status))))
        => outcome.kind = "TransportError"

\* C4 as stated: a 2xx body that is no JSON, or JSON that is no object with
\* result and error members, makes anki_request fail with the TransportError.
C4_EveryMalformedBody ==
    (Answered /\ lastResp.net = "ok" /\ Is2xx(lastResp.status)
        /\ (ReceivedForm(lastResp) \in {"text", "array"}
              \/ (ReceivedForm(lastResp) = "object" /\ lastResp.error.t = "absent"
                    /\ lastResp.result.t = "absent")))
        => outcome.kind = "TransportError"

SomeCallFailed == \E i \in 1..Len(ended) : ended[i] # "return"

LastOut == IF out = <<>> THEN "" ELSE out[Len(out)]

\* C5: the export opens its file only after findNotes and notesInfo have
\* both returned and findNotes gave at least one note; a run in which a
\* call failed or findNotes gave no notes ends with a diagnostic and
\* without the file.
C5_NoFileBeforeRetrieval ==
    script = "export" =>
        /\ csvfile.state # "absent"
              => ended = <<"return", "return">> /\ note_ids # <<>>
        /\ (pc = "done" /\ (SomeCallFailed \/ note_ids = <<>>))
              => csvfile = NoFile /\ LastOut \in {"error", "no notes"}

C5_Witness ==
    /\ script = "export" /\ pc = "done"
    /\ ended = <<"return", "RemoteError">>
    /\ csvfile = NoFile
    /\ LastOut = "error"

Columns == <<"Id", "English", "Japanese", "ka", "ROM", "Explanation">>

HasCR(v) == \E k \in 1..Len(v) : v[k] = CR

RECURSIVE WithoutCR(_)
WithoutCR(v) ==
    IF v = <<>> THEN <<>>
    ELSE IF Head(v) = CR THEN WithoutCR(Tail(v))
    ELSE <<Head(v)>> \o WithoutCR(Tail(v))

ExportCompleted == script = "export" /\ pc = "done" /\ LastOut = "exported"

\* C6: a completed export of a list of notes that is not empty holds the
\* header and one row per note in the order of the list; no value written
\* holds a carriage return, each is the field's value without its carriage
\* returns, and a field the note lacks is written as the empty value.
C6_RowsOfCompletedExport ==
    (ExportCompleted /\ notes_info # <<>>) =>
        /\ csvfile.state = "closed"
        /\ csvfile.header = Header
        /\ Len(csvfile.rows) = Len(notes_info)
        /\ \A i \in 1..Len(notes_info) : \A c \in 1..Len(Columns) :
              /\ Len(csvfile.rows[i]) = Len(Columns)
              /\ ~HasCR(csvfile.rows[i][c])
              /\ csvfile.rows[i][c] =
                    IF Columns[c] \in DOMAIN notes_info[i].fields
                    THEN WithoutCR(notes_info[i].fields[Columns[c]])
                    ELSE <<>>

C6_Witness ==
    /\ ExportCompleted
    /\ Len(notes_info) = 2
    /\ notes_info[1] = KnownNote(AllFields, <<"r", CR>>)
    /\ notes_info[2] = KnownNote({"Id"}, <<CR, "r">>)
    /\ csvfile.rows = << <<<<"r">>, <<"r">>, <<"r">>, <<"r">>, <<"r">>, <<"r">>>>,
                        <<<<"r">>, <<>>, <<>>, <<>>, <<>>, <<>>>> >>

Decodes(r) ==
    LET d == Loads(r.body)
    IN  /\ Member(d, <<"action">>) = JStr(<<r.action>>)
        /\ Member(d, <<"params">>) = r.params
        /\ Member(d, <<"version">>) = JInt(6)

\* C7: every body anki_request posts decodes to an object whose action and
\* params are the caller's and whose version is 6.
C7_BodyRoundTrips ==
    \A i \in 1..Len(sent) : sent[i].method = "POST" => Decodes(sent[i])

C7_Witness ==
    \E i \in 1..Len(sent) :
        /\ sent[i].method = "POST"
        /\ sent[i].action = "findNotes"
        /\ sent[i].params = QueryParams(<<BACKSLASH, KANA_KA>>)
        /\ Decodes(sent[i])
        /\ \E j \in (i + 1)..Len(sent) : sent[j] = sent[i]

ReleaseOrder(a) ==
    <<GitStatus, ReadPackage, NpmVersion(a.bump), NpmPublish(a.otp), GitPush, GitPushTags>>

\* C8: the steps of a release run are a prefix of: git status, read
\* package.json, npm version, npm publish, git push, git push --tags; a
\* step runs only if every step before it succeeded (a dirty working tree
\* is no success).
C8_ReleaseOrder ==
    script = "release" =>
        /\ Len(cmds) <= 6 /\ Len(results) = Len(cmds)
        /\ \A i \in 1..Len(cmds) :
              /\ cmds[i] = ReleaseOrder(args)[i]
              /\ \A j \in 1..(i - 1) : results[j] = "ok"

C8_Witness ==
    /\ script = "release" /\ pc = "done"
    /\ Len(cmds) = 6
    /\ \A j \in 1..6 : results[j] = "ok"

\* The POSTs sent for the call numbered c.
Posts(c) == {k \in 1..Len(sent) : sent[k].call = c /\ sent[k].method = "POST"}

\* C9 as stated: every call of anki_request issues exactly one HTTP POST
\* (none yet while the call is about to post) and then returns or fails,
\* no call that failed is made again later in the run, and at most one
\* request is unanswered.
C9_OnePostPerCall ==
    /\ inflight <= 1
    /\ inflight = (IF phase = "wait" THEN 1 ELSE 0)
    /\ Len(ended) = calls - (IF phase = "caller" THEN 0 ELSE 1)
    /\ \A c \in 1..calls :
          Cardinality(Posts(c)) = (IF c = calls /\ phase = "post" THEN 0 ELSE 1)
    /\ \A i \in 1..Len(sent) : \A j \in (i + 1)..Len(sent) :
          (sent[i].call < sent[j].call /\ ended[sent[i].call] # "return")
              => <<sent[j].action, sent[j].params>> # <<sent[i].action, sent[i].params>>

IsUpdate(r) == r.action = "updateNote" /\ r.method = "POST"

UpdateLog ==
    script = "update" =>
        /\ Cardinality({k \in 1..Len(sent) : IsUpdate(sent[k])}) <= 1
        /\ \A k \in 1..Len(sent) : IsUpdate(sent[k]) =>
              /\ sent[k].call = 3
              /\ note_ids # <<>>
              /\ ended[1] = "return" /\ ended[2] = "return"
              /\ \A j \in 1..Len(sent) :
                    /\ sent[j].call = 1 => sent[j].action = "findNotes"
                    /\ sent[j].call = 2 =>
                          /\ sent[j].action = "notesInfo"
                          /\ sent[j].params = NotesParams(<<note_ids[1]>>)
              /\ sent[k].params = UpdatePayload(note_ids[1], current_english \o <<" foo">>)
        /\ \A k \in 1..Len(sent) : sent[k].call = 4 =>
              /\ Posts(3) # {} /\ \A j \in Posts(3) : IsUpdate(sent[j])
              /\ ended[3] = "return"
              /\ sent[k].action = "notesInfo"
              /\ sent[k].params = NotesParams(<<note_ids[1]>>)
        /\ (SomeCallFailed /\ ~(Len(ended) >= 3 /\ ended[1] = "return" /\ ended[2] = "return"))
              => \A k \in 1..Len(sent) : ~IsUpdate(sent[k])

\* What the updater keeps of a response is what the response held.
UpdateReads ==
    /\ (script = "update" /\ pc = "findNotes" /\ pc' = "notesInfo")
          => outcome.kind = "return" /\ note_ids' = outcome.value.ids /\ note_ids' # <<>>
    /\ (script = "update" /\ pc = "notesInfo" /\ pc' = "updateNote")
          => /\ outcome.kind = "return" /\ HasEnglish(outcome.value)
             /\ current_english' = outcome.value.notes[1].fields["English"]

\* C10 as stated: the updater issues the updateNote POST at most once, in
\* its third call, after findNotes returned ids and notesInfo of the first
\* id returned a note with an English field; the request names the first id
\* and sets the English field alone, to the value read plus " foo"; the
\* verifying notesInfo is sent only after updateNote returned.
C10_UpdateOnce == []UpdateLog /\ [][UpdateReads]_vars
====
